---- MODULE Spec2Model ----
(***************************************************************************)
(* Layout and animation engines of the Particles graph viewer:             *)
(*   ParticleSorter   (src/public/sort-particles.js)                       *)
(*   ParticleShuffler (shuffle-particles.js)                               *)
(* Layout coordinates are whole pixels; cos/sin are in thousandths.        *)
(***************************************************************************)
EXTENDS Integers, Sequences, FiniteSets, TLC

\* ------------------------------------------------------------------------
\* Bounds of the explored inputs
\* ------------------------------------------------------------------------
MaxNodes == 4
MaxEdges == 1
MaxLinks == 2

\* A key that names no node (a dangling reference).
Ghost == 0

\* Canvas sizes tried: the two used by the tests and a small window.
Canvases == { [width |-> 800, height |-> 600],
              [width |-> 1200, height |-> 800],
              [width |-> 400, height |-> 300] }

NodeRadius == 20

VARIABLES
    nodeKeys,     \* Object.keys(nodes) / Map keys, in iteration order
    nodeEdges,    \* node key -> the node object's `edges` array (neighbour keys)
    graphEdges,   \* graph.edges: sequence of [source, target, directed]
    format,       \* "graph" ({nodes, edges}) or "legacy" (Map/object with edges arrays)
    canvas,       \* [width, height]
    step,         \* how far the layout pass has got
    clusters,     \* result of detectClusters
    centrality,   \* result of calculateCentrality
    targets,      \* result of calculateGridPositions / calculateTargetPositions
    pos,          \* live node positions (x, y), in hundredths of a pixel
    sorter,       \* ParticleSorter fields: isAnimating
    shuffler,     \* ParticleShuffler fields: isAnimating, shouldStop
    runs,         \* the startSorting / startShuffling calls made so far
    clickTimers,  \* shuffle clicks waiting in their 50 ms cleanup delay
    store,        \* GraphService.graphData: nodes and edges
    reply,        \* what the last GraphService call returned
    calls,        \* number of GraphService calls made
    sockets,      \* WebSocketService.clients, with each socket's readyState and sent messages
    pageParticles,  \* the browser's copy of the graph (graph.js `particles`)
    persist,      \* position updates of a finished layout run still to be posted
    ws,                    \* graph.js `ws`
    wsReconnectAttempts,   \* graph.js `wsReconnectAttempts`
    reconnectTimer,        \* delay of the pending setTimeout(connectWebSocket), 0 if none
    attemptLog             \* delays scheduled so far, since page load

layoutVars == << nodeKeys, nodeEdges, graphEdges, format, canvas, step,
                 clusters, centrality, targets >>

runVars == << pos, sorter, shuffler, runs, clickTimers >>

storeVars == << store, reply, calls, sockets, pageParticles, persist >>

socketVars == << ws, wsReconnectAttempts, reconnectTimer, attemptLog >>

vars == << nodeKeys, nodeEdges, graphEdges, format, canvas, step,
           clusters, centrality, targets, pos, sorter, shuffler, runs, clickTimers,
           store, reply, calls, sockets, pageParticles, persist,
           ws, wsReconnectAttempts, reconnectTimer, attemptLog >>

\* ------------------------------------------------------------------------
\* Generic helpers
\* ------------------------------------------------------------------------
Range(s) == { s[i] : i \in DOMAIN s }

BSeq(S, n) == UNION { [1..k -> S] : k \in 0..n }

Max2(a, b) == IF a >= b THEN a ELSE b

Min2(a, b) == IF a <= b THEN a ELSE b

Abs(a) == IF a < 0 THEN -a ELSE a

\* Division truncating toward zero.
Div(a, b) == IF a >= 0 THEN a \div b ELSE -((-a) \div b)

RECURSIVE SumSeq(_)
SumSeq(s) == IF s = << >> THEN 0 ELSE Head(s) + SumSeq(Tail(s))

MaxOfSet(S) == CHOOSE m \in S : \A x \in S : x <= m

MinOfSet(S) == CHOOSE m \in S : \A x \in S : m <= x

Contains(s, x) == \E i \in DOMAIN s : s[i] = x

\* ------------------------------------------------------------------------
\* ParticleSorter.prepareGraphData: merge graph.edges into the node objects
\* ------------------------------------------------------------------------
HasNode(adj, k) == k \in DOMAIN adj

\* Mutant: an edge is merged as soon as its source is a node.
MergeEdgeSourceOnly(adj, edge) ==
    IF HasNode(adj, edge.source)
    THEN LET a1 == IF Contains(adj[edge.source], edge.target)
                   THEN adj
                   ELSE [adj EXCEPT ![edge.source] = Append(@, edge.target)]
         IN  IF ~edge.directed /\ HasNode(adj, edge.target)
             THEN IF Contains(a1[edge.target], edge.source)
                  THEN a1
                  ELSE [a1 EXCEPT ![edge.target] = Append(@, edge.source)]
             ELSE a1
    ELSE adj

\* One edge of the loop at sort-particles.js:43-76.
MergeEdge(adj, edge) ==
    IF HasNode(adj, edge.source) /\ HasNode(adj, edge.target)
    THEN LET a1 == IF Contains(adj[edge.source], edge.target)
                   THEN adj
                   ELSE [adj EXCEPT ![edge.source] = Append(@, edge.target)]
         IN  IF ~edge.directed
             THEN IF Contains(a1[edge.target], edge.source)
                  THEN a1
                  ELSE [a1 EXCEPT ![edge.target] = Append(@, edge.source)]
             ELSE a1
    ELSE adj

RECURSIVE PrepareGraphData(_, _)
PrepareGraphData(adj, edges) ==
    IF edges = << >> THEN adj
    ELSE PrepareGraphData(MergeEdge(adj, Head(edges)), Tail(edges))

\* ------------------------------------------------------------------------
\* detectClusters (identical in both engines): depth-first search
\* ------------------------------------------------------------------------
\* Mutant: the neighbour is followed without asking whether it is a particle.
FollowEdgeUnchecked(adj, visited, key) == key \notin visited

\* The guard of the inner loop: the neighbour is a particle and is unvisited.
FollowEdge(adj, visited, key) == HasNode(adj, key) /\ key \notin visited

RECURSIVE Dfs(_, _, _), DfsEdges(_, _, _)
Dfs(adj, nodeKey, st) ==
    IF nodeKey \in st.visited THEN st
    ELSE LET st1 == [visited |-> st.visited \cup {nodeKey},
                     cluster |-> Append(st.cluster, nodeKey)]
         IN  IF HasNode(adj, nodeKey)
             THEN DfsEdges(adj, adj[nodeKey], st1)
             ELSE st1

DfsEdges(adj, es, st) ==
    IF es = << >> THEN st
    ELSE LET st1 == IF FollowEdge(adj, st.visited, Head(es))
                    THEN Dfs(adj, Head(es), st)
                    ELSE st
         IN  DfsEdges(adj, Tail(es), st1)

RECURSIVE DetectLoop(_, _, _, _)
DetectLoop(adj, keys, visited, acc) ==
    IF keys = << >> THEN acc
    ELSE IF Head(keys) \notin visited
         THEN LET r == Dfs(adj, Head(keys), [visited |-> visited, cluster |-> << >>])
              IN  DetectLoop(adj, Tail(keys), r.visited,
                             IF Len(r.cluster) > 0 THEN Append(acc, r.cluster) ELSE acc)
         ELSE DetectLoop(adj, Tail(keys), visited, acc)

DetectClusters(keys, adj) == DetectLoop(adj, keys, {}, << >>)

\* ------------------------------------------------------------------------
\* Grid sort layout
\* ------------------------------------------------------------------------
nodeSpacing == 300
clusterSpacing == 600
topMargin == 80
leftMargin == 30
diagonalOffset == 30

ConnectionCount(adj, k) == IF HasNode(adj, k) THEN Len(adj[k]) ELSE 0

RECURSIVE CalculateClusterConnectionCount(_, _)
CalculateClusterConnectionCount(clusterNodes, adj) ==
    IF clusterNodes = << >> THEN 0
    ELSE ConnectionCount(adj, Head(clusterNodes))
         + CalculateClusterConnectionCount(Tail(clusterNodes), adj)

\* Mutant: the comparator with its operands swapped (ascending order).
ClusterBeforeAscending(a, b, adj) ==
    CalculateClusterConnectionCount(a, adj) <= CalculateClusterConnectionCount(b, adj)

\* The comparator of sortClustersByConnectionCount: a goes before b.
ClusterBefore(a, b, adj) ==
    CalculateClusterConnectionCount(a, adj) >= CalculateClusterConnectionCount(b, adj)

\* Stable insertion of c into a sequence already in order.
RECURSIVE InsertCluster(_, _, _)
InsertCluster(sorted, c, adj) ==
    IF sorted = << >> THEN << c >>
    ELSE IF ClusterBefore(Head(sorted), c, adj)
         THEN << Head(sorted) >> \o InsertCluster(Tail(sorted), c, adj)
         ELSE << c >> \o sorted

RECURSIVE SortLoop(_, _, _)
SortLoop(cs, acc, adj) ==
    IF cs = << >> THEN acc
    ELSE SortLoop(Tail(cs), InsertCluster(acc, Head(cs), adj), adj)

SortClustersByConnectionCount(cs, adj) == SortLoop(cs, << >>, adj)

\* The distinct connection counts of a cluster, highest first.
RECURSIVE DescendingCounts(_)
DescendingCounts(S) ==
    IF S = {} THEN << >>
    ELSE LET m == MaxOfSet(S) IN << m >> \o DescendingCounts(S \ {m})

GroupNodesByConnectionCount(clusterNodes, adj) ==
    LET counts == { ConnectionCount(adj, clusterNodes[i]) : i \in DOMAIN clusterNodes }
        levels == DescendingCounts(counts)
    IN  [ l \in DOMAIN levels |->
            SelectSeq(clusterNodes, LAMBDA k : ConnectionCount(adj, k) = levels[l]) ]

\* Mutant: the width of the cluster is left out of the cursor advance.
ClusterWidthNone(connectionLevels) == Len(connectionLevels) * 0

\* maxNodesInLevel * this.nodeSpacing
ClusterWidth(connectionLevels) ==
    MaxOfSet({ Len(connectionLevels[l]) : l \in DOMAIN connectionLevels }) * nodeSpacing

\* The x-cursor (currentClusterX) at which each sorted cluster starts.
RECURSIVE ClusterCursors(_, _, _)
ClusterCursors(sortedClusters, adj, currentClusterX) ==
    IF sortedClusters = << >> THEN << >>
    ELSE << currentClusterX >> \o
         ClusterCursors(Tail(sortedClusters), adj,
             currentClusterX
               + ClusterWidth(GroupNodesByConnectionCount(Head(sortedClusters), adj))
               + clusterSpacing)

\* Mutant: the lower edge of the canvas is not enforced.
ClampYTopOnly(cv, radius, y) == Max2(radius, y)

\* Math.max(radius, Math.min(this.canvas.height - radius, y))
ClampY(cv, radius, y) == Max2(radius, Min2(cv.height - radius, y))

\* Position of the i-th node (0-based) of level l (1-based) of a cluster at x-cursor cx.
GridCell(cv, cx, l, i) ==
    [ x |-> cx + i * nodeSpacing,
      y |-> ClampY(cv, NodeRadius, (topMargin + (l - 1) * nodeSpacing) + i * diagonalOffset) ]

CalculateGridPositions(keys, adj, cv) ==
    LET sortedClusters == SortClustersByConnectionCount(DetectClusters(keys, adj), adj)
        cursors == ClusterCursors(sortedClusters, adj, leftMargin)
        Place(k) ==
            LET c == CHOOSE c \in DOMAIN sortedClusters : Contains(sortedClusters[c], k)
                levels == GroupNodesByConnectionCount(sortedClusters[c], adj)
                l == CHOOSE l \in DOMAIN levels : Contains(levels[l], k)
                i == CHOOSE i \in DOMAIN levels[l] : levels[l][i] = k
            IN  GridCell(cv, cursors[c], l, i - 1)
    IN  [ k \in UNION { Range(sortedClusters[c]) : c \in DOMAIN sortedClusters } |-> Place(k) ]

\* ------------------------------------------------------------------------
\* Arithmetic of the radial shuffle layout
\* ------------------------------------------------------------------------
\* Math.sqrt, rounded down.
RECURSIVE SqrtSearch(_, _, _)
SqrtSearch(n, lo, hi) ==
    IF lo >= hi THEN lo
    ELSE LET mid == (lo + hi + 1) \div 2
         IN  IF mid * mid <= n THEN SqrtSearch(n, mid, hi) ELSE SqrtSearch(n, lo, mid - 1)

Sqrt(n) == SqrtSearch(n, 0, Min2(n, 46340))

\* Math.sin / Math.cos of an angle in whole degrees, in thousandths
\* (Bhaskara's rational approximation on each half turn).
HalfSine(d) == (4000 * d * (180 - d)) \div (40500 - d * (180 - d))

Sin(deg) ==
    LET d == deg % 360
    IN  IF d <= 180 THEN HalfSine(d) ELSE -HalfSine(d - 180)

Cos(deg) == Sin(deg + 90)

\* centre + Math.cos(angle) * r and centre + Math.sin(angle) * r
PolarX(cx, deg, r) == cx + Div(Cos(deg) * r, 1000)

PolarY(cy, deg, r) == cy + Div(Sin(deg) * r, 1000)

\* ------------------------------------------------------------------------
\* ParticleShuffler configuration (constructor)
\* ------------------------------------------------------------------------
repulsionStrength == 50
minRadius == 100
clusterSeparationDistance == 400
clusterBoundaryPadding == 80
interClusterRepulsion == 200
enableClusterSeparation == TRUE
maxIterations == 5

\* Math.random() * 0.5 and Math.random() * 0.3 radians as whole degrees, one
\* draw per particle: all low, all high, alternating.
Jitters(keys) ==
    { [ k \in Range(keys) |-> 0 ],
      [ k \in Range(keys) |-> 12 ],
      [ k \in Range(keys) |-> IF k % 2 = 1 THEN 12 ELSE 0 ] }

\* Math.random() * 2 * Math.PI of the exact-overlap case, as whole degrees.
OverlapDeg == {0, 90}

NoCluster == -1

\* ------------------------------------------------------------------------
\* calculateCentrality
\* ------------------------------------------------------------------------
CalculateCentrality(keys, adj) == [ k \in Range(keys) |-> Len(adj[k]) ]

\* ------------------------------------------------------------------------
\* calculateClusterCenters / calculateClusterRadius
\* ------------------------------------------------------------------------
SafeMargin == minRadius * 2 + 50

SafeBounds(cv) ==
    [ minX |-> SafeMargin, maxX |-> cv.width - SafeMargin,
      minY |-> SafeMargin, maxY |-> cv.height - SafeMargin ]

Clamp(lo, hi, v) == Max2(lo, Min2(hi, v))

\* Math.ceil(Math.sqrt(n))
CeilSqrt(n) == IF Sqrt(n) * Sqrt(n) = n THEN Sqrt(n) ELSE Sqrt(n) + 1

TwoClusterCenters(cv) ==
    LET sb == SafeBounds(cv)
        centerY == cv.height \div 2
        maxSeparation == sb.maxX - sb.minX
        separation == Min2(clusterSeparationDistance, Div(maxSeparation * 6, 10))
        leftX == Max2(sb.minX, cv.width \div 2 - Div(separation, 2))
        rightX == Min2(sb.maxX, cv.width \div 2 + Div(separation, 2))
    IN  << [x |-> leftX, y |-> centerY], [x |-> rightX, y |-> centerY] >>

ManyClusterCenters(cv, numClusters) ==
    LET sb == SafeBounds(cv)
        maxDistributionRadius == Min2(Div(sb.maxX - sb.minX, 2), Div(sb.maxY - sb.minY, 2))
        distributionRadius == Min2(maxDistributionRadius, Min2(cv.width, cv.height) \div 4)
        cols == CeilSqrt(numClusters)
        rows == (numClusters + cols - 1) \div cols
    IN  IF numClusters <= 6
        THEN [ c \in 1..numClusters |->
                 [ x |-> Max2(sb.minX, Min2(sb.maxX,
                            PolarX(cv.width \div 2, (c - 1) * (360 \div numClusters), distributionRadius))),
                   y |-> Max2(sb.minY, Min2(sb.maxY,
                            PolarY(cv.height \div 2, (c - 1) * (360 \div numClusters), distributionRadius))) ] ]
        ELSE [ c \in 1..numClusters |->
                 [ x |-> sb.minX + Div((2 * ((c - 1) % cols) + 1) * (sb.maxX - sb.minX), 2 * cols),
                   y |-> sb.minY + Div((2 * ((c - 1) \div cols) + 1) * (sb.maxY - sb.minY), 2 * rows) ] ]

CalculateClusterCenters(cs, cv) ==
    IF Len(cs) = 1 THEN << [x |-> cv.width \div 2, y |-> cv.height \div 2] >>
    ELSE IF Len(cs) = 2 THEN TwoClusterCenters(cv)
    ELSE ManyClusterCenters(cv, Len(cs))

\* Math.max(minRadius, minRadius * Math.sqrt(n) * 0.5)
CalculateClusterRadius(clusterNodes) ==
    Max2(minRadius, Sqrt(minRadius * minRadius * Len(clusterNodes)) \div 2)

\* ------------------------------------------------------------------------
\* Ring placement
\* ------------------------------------------------------------------------
\* (maxCentrality - minCentrality) || 1
CentralityRange(minC, maxC) == IF maxC - minC = 0 THEN 1 ELSE maxC - minC

\* normalizedCentrality as a fraction [num, den].
Normalized(level, minC, range) ==
    IF range = 0 THEN [num |-> 1, den |-> 2]
    ELSE [num |-> level - minC, den |-> range]

\* Mutant: the ring grows with centrality instead of shrinking.
RingRadiusOutward(lo, hi, norm) == lo + Div((hi - lo) * norm.num, norm.den)

\* lo + (hi - lo) * (1 - normalizedCentrality)
RingRadius(lo, hi, norm) == lo + Div((hi - lo) * (norm.den - norm.num), norm.den)

\* The members of k's centrality group, in the order the group was filled.
CentralityGroup(keys, cent, k) == SelectSeq(keys, LAMBDA j : cent[j] = cent[k])

IndexIn(s, k) == (CHOOSE i \in DOMAIN s : s[i] = k) - 1

MaxRadiusFor(cv) ==
    Max2(minRadius + 50, Min2(cv.width, cv.height) \div 2 - NodeRadius - 20)

CalculateSingleClusterTargets(keys, cent, cv, jitter) ==
    LET vals == { cent[k] : k \in Range(keys) }
        minC == MinOfSet(vals)
        maxC == MaxOfSet(vals)
        range == CentralityRange(minC, maxC)
        maxRadius == MaxRadiusFor(cv)
        Place(k) ==
            LET group == CentralityGroup(keys, cent, k)
                targetRadius == RingRadius(minRadius + 10, maxRadius, Normalized(cent[k], minC, range))
                angle == IndexIn(group, k) * (360 \div Len(group)) + jitter[k]
            IN  [ x |-> Clamp(NodeRadius, cv.width - NodeRadius,
                              PolarX(cv.width \div 2, angle, targetRadius)),
                  y |-> Clamp(NodeRadius, cv.height - NodeRadius,
                              PolarY(cv.height \div 2, angle, targetRadius)),
                  radius |-> targetRadius,
                  clusterId |-> NoCluster ]
    IN  [ k \in Range(keys) |-> Place(k) ]

CalculateClusterLocalTargets(clusterNodes, cent, clusterCenter, clusterRadius, jitter) ==
    LET vals == { cent[k] : k \in Range(clusterNodes) }
        minC == MinOfSet(vals)
        maxC == MaxOfSet(vals)
        range == CentralityRange(minC, maxC)
        minLocalRadius == Min2(30, clusterRadius \div 5)
        maxLocalRadius == clusterRadius - clusterBoundaryPadding
        Place(k) ==
            LET group == CentralityGroup(clusterNodes, cent, k)
                localRadius == RingRadius(minLocalRadius, maxLocalRadius,
                                          Normalized(cent[k], minC, range))
                angle == IndexIn(group, k) * (360 \div Len(group)) + jitter[k]
            IN  [ x |-> PolarX(clusterCenter.x, angle, localRadius),
                  y |-> PolarY(clusterCenter.y, angle, localRadius),
                  radius |-> localRadius ]
    IN  [ k \in Range(clusterNodes) |-> Place(k) ]

\* Mutant: isolated nodes next to one connected cluster are not recognised.
UseSingleClusterOnlyOne(cs) ==
    \/ ~enableClusterSeparation
    \/ Len(cs) = 1

\* shouldUseSingleCluster, with the enableClusterSeparation test before it.
UseSingleCluster(cs) ==
    \/ ~enableClusterSeparation
    \/ Len(cs) = 1
    \/ (Len(cs) > 1 /\ Cardinality({ c \in DOMAIN cs : Len(cs[c]) > 1 }) = 1)

CalculateTargetPositions(keys, adj, cent, cv, jitter) ==
    LET cs == DetectClusters(keys, adj)
        clusterCenters == CalculateClusterCenters(cs, cv)
        Local(c) == CalculateClusterLocalTargets(cs[c], cent, clusterCenters[c],
                                                 CalculateClusterRadius(cs[c]), jitter)
        Place(k) ==
            LET c == CHOOSE c \in DOMAIN cs : Contains(cs[c], k)
                t == Local(c)[k]
            IN  [ x |-> t.x, y |-> t.y, radius |-> t.radius, clusterId |-> c - 1 ]
    IN  IF UseSingleCluster(cs)
        THEN CalculateSingleClusterTargets(keys, cent, cv, jitter)
        ELSE [ k \in UNION { Range(cs[c]) : c \in DOMAIN cs } |-> Place(k) ]

\* ------------------------------------------------------------------------
\* applyRepulsionForces
\* ------------------------------------------------------------------------
\* (particle1.radius + particle2.radius) * 2.2
IntraMinDistance == Div((NodeRadius + NodeRadius) * 22, 10)

DifferentClusters(t1, t2) ==
    /\ enableClusterSeparation
    /\ t1.clusterId # NoCluster
    /\ t2.clusterId # NoCluster
    /\ t1.clusterId # t2.clusterId

MinDistance(t1, t2) ==
    IF DifferentClusters(t1, t2)
    THEN Max2(IntraMinDistance, clusterSeparationDistance \div 2)
    ELSE IntraMinDistance

RepulsionForce(t1, t2) ==
    IF DifferentClusters(t1, t2) THEN interClusterRepulsion ELSE repulsionStrength

Overlaps(t1, t2) ==
    LET dx == t1.x - t2.x
        dy == t1.y - t2.y
        md == MinDistance(t1, t2)
    IN  Abs(dx) < md /\ Abs(dy) < md /\ dx * dx + dy * dy < md * md

\* The body of the pair loop for targets key1, key2; rnd is the random angle.
RepelPair(tg, key1, key2, rnd) ==
    LET t1 == tg[key1]
        t2 == tg[key2]
        dx == t1.x - t2.x
        dy == t1.y - t2.y
        distance == Sqrt(dx * dx + dy * dy)
        md == MinDistance(t1, t2)
        offset == Div(md * 6, 10)
        forceX == Div(dx * (md - distance) * RepulsionForce(t1, t2), distance * 10)
        forceY == Div(dy * (md - distance) * RepulsionForce(t1, t2), distance * 10)
    IN  IF dx = 0 /\ dy = 0
        THEN [tg EXCEPT ![key1].x = @ + Div(Cos(rnd) * offset, 1000),
                        ![key1].y = @ + Div(Sin(rnd) * offset, 1000),
                        ![key2].x = @ - Div(Cos(rnd) * offset, 1000),
                        ![key2].y = @ - Div(Sin(rnd) * offset, 1000)]
        ELSE [tg EXCEPT ![key1].x = @ + forceX,
                        ![key1].y = @ + forceY,
                        ![key2].x = @ - forceX,
                        ![key2].y = @ - forceY]

\* All (i, j) with i < j, in the order of the nested loops.
KeyPairs(keys) ==
    LET n == Len(keys)
        RECURSIVE From(_, _)
        From(i, j) ==
            IF i >= n THEN << >>
            ELSE IF j > n THEN From(i + 1, i + 2)
            ELSE << << keys[i], keys[j] >> >> \o From(i, j + 1)
    IN  From(1, 2)

RECURSIVE RepelPairs(_, _, _)
RepelPairs(st, pairs, rnd) ==
    IF pairs = << >> THEN st
    ELSE LET k1 == Head(pairs)[1]
             k2 == Head(pairs)[2]
             present == k1 \in DOMAIN st.tg /\ k2 \in DOMAIN st.tg
         IN  IF present /\ Overlaps(st.tg[k1], st.tg[k2])
             THEN RepelPairs([tg |-> RepelPair(st.tg, k1, k2, rnd), hasOverlaps |-> TRUE],
                             Tail(pairs), rnd)
             ELSE RepelPairs(st, Tail(pairs), rnd)

RECURSIVE RepulsionIterations(_, _, _, _)
RepulsionIterations(tg, keys, iteration, rnd) ==
    IF iteration >= maxIterations THEN tg
    ELSE LET st == RepelPairs([tg |-> tg, hasOverlaps |-> FALSE], KeyPairs(keys), rnd)
         IN  IF ~st.hasOverlaps THEN st.tg
             ELSE RepulsionIterations(st.tg, keys, iteration + 1, rnd)

ApplyRepulsionForces(keys, tg, rnd) == RepulsionIterations(tg, keys, 0, rnd)

\* ------------------------------------------------------------------------
\* enforceCanvasBounds (defined by the shuffler, called by nothing)
\* ------------------------------------------------------------------------
EnforceCanvasBounds(keys, tg, cv) ==
    [ k \in DOMAIN tg |->
        IF k \in Range(keys)
        THEN [tg[k] EXCEPT !.x = Clamp(NodeRadius, cv.width - NodeRadius, @),
                           !.y = Clamp(NodeRadius, cv.height - NodeRadius, @)]
        ELSE tg[k] ]

\* The target map handed to the animator by startShuffling.
ShuffleTargets(keys, tg, cv, rnd) == ApplyRepulsionForces(keys, tg, rnd)

\* ------------------------------------------------------------------------
\* The graph service, its sockets and the browser before anything happened
\* ------------------------------------------------------------------------
MaxSockets == 1

\* private graphData: GraphData = { nodes: {}, edges: {} }
EmptyGraph == [nodes |-> << >>, edges |-> << >>]

NoReply == [op |-> "none", key |-> 0, success |-> TRUE, message |-> ""]

SocketIds == 1..MaxSockets

\* A socket that is not in WebSocketService.clients.
NoSocket == [state |-> "absent", inbox |-> << >>]

NoPersist == [started |-> 0, pending |-> {}, removed |-> {}]

StoreInit ==
    /\ store = EmptyGraph
    /\ reply = NoReply
    /\ calls = 0
    /\ sockets = [ s \in SocketIds |-> NoSocket ]
    /\ pageParticles = EmptyGraph
    /\ persist = NoPersist

\* let ws = null; let wsReconnectAttempts = 0;
SocketIdle ==
    /\ ws = "null"
    /\ wsReconnectAttempts = 0
    /\ reconnectTimer = 0
    /\ attemptLog = << >>

\* ------------------------------------------------------------------------
\* Layout inputs
\* ------------------------------------------------------------------------
Keys(n) == 0..n

EdgeRecords(n) == [ source : Keys(n), target : Keys(n), directed : BOOLEAN ]

\* A legacy particle map is written as the pushes that built its edges arrays.
LinkRecords(n) == [ owner : 1..n, key : Keys(n) ]

RECURSIVE LegacyEdges(_, _)
LegacyEdges(adj, links) ==
    IF links = << >> THEN adj
    ELSE LegacyEdges([adj EXCEPT ![Head(links).owner] = Append(@, Head(links).key)],
                     Tail(links))

NoEdges(n) == [ k \in 1..n |-> << >> ]

KeySeq(n) == [ i \in 1..n |-> i ]

Unset == << >>

\* Two larger particle maps: the hub, its four neighbours and the isolated
\* node of the shuffle test, and the same hub cluster next to a linked pair.
SampleParticles ==
    { << <<2, 3, 4, 5>>, <<1, 3>>, <<1, 2>>, <<1>>, <<1>>, << >> >>,
      << <<2, 3, 4, 5>>, <<1, 3>>, <<1, 2>>, <<1>>, <<1>>, <<7>>, <<6>> >> }

LayoutInit ==
    /\ \/ \E n \in 1..MaxNodes :
            /\ nodeKeys = KeySeq(n)
            /\ \/ /\ format = "graph"
                  /\ graphEdges \in BSeq(EdgeRecords(n), MaxEdges)
                  /\ nodeEdges = NoEdges(n)
               \/ /\ format = "legacy"
                  /\ graphEdges = << >>
                  /\ \E links \in BSeq(LinkRecords(n), MaxLinks) :
                       nodeEdges = LegacyEdges(NoEdges(n), links)
       \/ /\ format = "legacy"
          /\ graphEdges = << >>
          /\ nodeEdges \in SampleParticles
          /\ nodeKeys = KeySeq(Len(nodeEdges))
    /\ canvas \in Canvases
    /\ step = "input"
    /\ clusters = Unset
    /\ centrality = Unset
    /\ targets = Unset
    /\ pos = Unset
    /\ sorter = [isAnimating |-> FALSE]
    /\ shuffler = [isAnimating |-> FALSE, shouldStop |-> FALSE]
    /\ runs = << >>
    /\ clickTimers = 0
    /\ StoreInit
    /\ SocketIdle

\* ------------------------------------------------------------------------
\* One sort pass, function by function (startSorting, lines 298-302)
\* ------------------------------------------------------------------------
SortPrepare ==
    /\ step = "input"
    /\ nodeEdges' = PrepareGraphData(nodeEdges, graphEdges)
    /\ step' = "prepared"
    /\ UNCHANGED << nodeKeys, graphEdges, format, canvas, clusters, centrality, targets >>
    /\ UNCHANGED runVars
    /\ UNCHANGED storeVars
    /\ UNCHANGED socketVars

SortDetect ==
    /\ step = "prepared"
    /\ clusters' = DetectClusters(nodeKeys, nodeEdges)
    /\ step' = "clustered"
    /\ UNCHANGED << nodeKeys, nodeEdges, graphEdges, format, canvas, centrality, targets >>
    /\ UNCHANGED runVars
    /\ UNCHANGED storeVars
    /\ UNCHANGED socketVars

SortGrid ==
    /\ step = "clustered"
    /\ targets' = CalculateGridPositions(nodeKeys, nodeEdges, canvas)
    /\ clusters' = SortClustersByConnectionCount(clusters, nodeEdges)
    /\ step' = "gridded"
    /\ UNCHANGED << nodeKeys, nodeEdges, graphEdges, format, canvas, centrality >>
    /\ UNCHANGED runVars
    /\ UNCHANGED storeVars
    /\ UNCHANGED socketVars

\* ------------------------------------------------------------------------
\* One shuffle pass, function by function (startShuffling, lines 482-486)
\* ------------------------------------------------------------------------
ShuffleCentrality ==
    /\ step = "input"
    /\ format = "legacy"
    /\ centrality' = CalculateCentrality(nodeKeys, nodeEdges)
    /\ step' = "scored"
    /\ UNCHANGED << nodeKeys, nodeEdges, graphEdges, format, canvas, clusters, targets >>
    /\ UNCHANGED runVars
    /\ UNCHANGED storeVars
    /\ UNCHANGED socketVars

ShuffleTargetPositions ==
    /\ step = "scored"
    /\ \E jitter \in Jitters(nodeKeys) :
         targets' = CalculateTargetPositions(nodeKeys, nodeEdges, centrality, canvas, jitter)
    /\ clusters' = DetectClusters(nodeKeys, nodeEdges)
    /\ step' = "placed"
    /\ UNCHANGED << nodeKeys, nodeEdges, graphEdges, format, canvas, centrality >>
    /\ UNCHANGED runVars
    /\ UNCHANGED storeVars
    /\ UNCHANGED socketVars

ShuffleRepulsion ==
    /\ step = "placed"
    /\ \E rnd \in OverlapDeg :
         targets' = ShuffleTargets(nodeKeys, targets, canvas, rnd)
    /\ step' = "relaxed"
    /\ UNCHANGED << nodeKeys, nodeEdges, graphEdges, format, canvas, clusters, centrality >>
    /\ UNCHANGED runVars
    /\ UNCHANGED storeVars
    /\ UNCHANGED socketVars

LayoutNext ==
    \/ SortPrepare
    \/ SortDetect
    \/ SortGrid
    \/ ShuffleCentrality
    \/ ShuffleTargetPositions
    \/ ShuffleRepulsion

SpecLayout == LayoutInit /\ [][LayoutNext]_vars

\* ========================================================================
\* Properties of the layout functions (checked under SpecLayout)
\* ========================================================================
Nodes == Range(nodeKeys)

ClusterOf(cs, k) == { c \in DOMAIN cs : Contains(cs[c], k) }

Occurrences(cs, k) ==
    Cardinality({ p \in UNION { { << c, i >> : i \in DOMAIN cs[c] } : c \in DOMAIN cs } :
                    cs[p[1]][p[2]] = k })

SameCluster(cs, a, b) == \E c \in DOMAIN cs : Contains(cs[c], a) /\ Contains(cs[c], b)

Detected == step \in {"clustered", "gridded", "placed", "relaxed"}

Joined(a, b) ==
    \E i \in DOMAIN graphEdges :
        /\ {graphEdges[i].source, graphEdges[i].target} = {a, b}

RECURSIVE Reach(_)
Reach(S) ==
    LET T == S \cup { b \in Nodes : \E a \in S : Joined(a, b) }
    IN  IF T = S THEN S ELSE Reach(T)

\* C2: two nodes are in the same cluster if and only if an undirected path of
\* edges joins them, whatever the directed flag and the iteration order.
C2_SameClusterIffConnected ==
    (step = "clustered" /\ format = "graph") =>
        \A a, b \in Nodes : SameCluster(clusters, a, b) <=> b \in Reach({a})

EndpointsExist ==
    \A i \in DOMAIN graphEdges :
        graphEdges[i].source \in Nodes /\ graphEdges[i].target \in Nodes

\* C3: the degree used by the layout equals the number of edges in which the
\* node is source or target (all edges having both endpoints in the graph).
C3_DegreeCountsIncidentEdges ==
    (step = "prepared" /\ format = "graph" /\ EndpointsExist) =>
        \A k \in Nodes :
            ConnectionCount(nodeEdges, k) =
                Cardinality({ i \in DOMAIN graphEdges :
                                graphEdges[i].source = k \/ graphEdges[i].target = k })

InCanvas(t, cv) ==
    /\ NodeRadius <= t.x /\ t.x <= cv.width - NodeRadius
    /\ NodeRadius <= t.y /\ t.y <= cv.height - NodeRadius

\* C4: after a shuffle pass every final target lies inside the canvas, its
\* own radius away from each border.
C4_ShuffleTargetsInCanvas ==
    step = "relaxed" => \A k \in Nodes : InCanvas(targets[k], canvas)

\* Two nodes laid out around the same centre by the shuffle layout.
SameRingSystem(a, b) == UseSingleCluster(clusters) \/ SameCluster(clusters, a, b)

DegreeSum(c) == CalculateClusterConnectionCount(clusters[c], nodeEdges)

AllLeftOf(c, d) ==
    \A a \in Range(clusters[c]), b \in Range(clusters[d]) : targets[a].x < targets[b].x

MaxRuns == 2

\* animationSpeed in hundredths, snap distance in hundredths of a pixel.
SorterAnimationSpeed == 5
ShufflerAnimationSpeed == 15
SorterSnapDistance == 100
ShufflerSnapDistance == 200

\* A layout target (whole pixels) as a live position.
LiveTargets(tg) == [ k \in DOMAIN tg |-> [x |-> tg[k].x * 100, y |-> tg[k].y * 100] ]

\* distance > snap, for distance = Math.sqrt(dx * dx + dy * dy)
Far(dx, dy, snap) ==
    \/ Abs(dx) > snap
    \/ Abs(dy) > snap
    \/ dx * dx + dy * dy > snap * snap

\* Mutant: the step is computed but not added to the position.
AdvanceNowhere(v, d, speed) == v + Div(d * speed, 100) * 0

\* particle.x += dx * animationSpeed
Advance(v, d, speed) == v + Div(d * speed, 100)

\* Mutant: a particle within the snap distance is left where it is.
MoveParticleNoSnap(p, t, speed, snap) ==
    IF Far(t.x - p.x, t.y - p.y, snap)
    THEN [x |-> Advance(p.x, t.x - p.x, speed), y |-> Advance(p.y, t.y - p.y, speed)]
    ELSE [x |-> p.x, y |-> p.y]

\* The loop body of animate() for one particle p with target t.
MoveParticle(p, t, speed, snap) ==
    IF Far(t.x - p.x, t.y - p.y, snap)
    THEN [x |-> Advance(p.x, t.x - p.x, speed), y |-> Advance(p.y, t.y - p.y, speed)]
    ELSE [x |-> t.x, y |-> t.y]

SpeedOf(run) == IF run.engine = "sort" THEN SorterAnimationSpeed ELSE ShufflerAnimationSpeed

SnapOf(run) == IF run.engine = "sort" THEN SorterSnapDistance ELSE ShufflerSnapDistance

\* allReachedTarget at the end of the loop of animate().
AllReachedTarget(p, run) ==
    \A k \in DOMAIN p :
        k \in DOMAIN run.targets =>
            ~Far(run.targets[k].x - p[k].x, run.targets[k].y - p[k].y, SnapOf(run))

MoveAll(p, run) ==
    [ k \in DOMAIN p |->
        IF k \in DOMAIN run.targets
        THEN MoveParticle(p[k], run.targets[k], SpeedOf(run), SnapOf(run))
        ELSE p[k] ]

\* The mutable state a frame callback works on.
Machine(p, so, sh, rs) == [pos |-> p, sorter |-> so, shuffler |-> sh, runs |-> rs]

\* What a persistence callback supplied by the caller does.
CallbackKinds == {"resolves", "rejects"}

NewRun(engine, tg, keys, cb) ==
    [ engine |-> engine, phase |-> "animating", outcome |-> "running",
      targets |-> tg, keys |-> keys, callback |-> cb,
      calls |-> << >>, stopped |-> FALSE, atTargets |-> FALSE ]

\* Every particle that has a target is exactly on it.
OnTargets(p, tg) == \A k \in DOMAIN p : k \in DOMAIN tg => p[k] = tg[k]

\* startSorting after `await animateToTargets`: lines 307-315 up to the first await.
SorterAfterAnimation(m, i) ==
    LET run == m.runs[i]
        none == run.callback = "none" \/ run.keys = << >>
    IN  IF none
        THEN [m EXCEPT !.runs[i].phase = "settled", !.runs[i].outcome = "completed",
                       !.runs[i].atTargets = OnTargets(m.pos, run.targets),
                       !.sorter.isAnimating = FALSE]
        ELSE [m EXCEPT !.runs[i].phase = "persisting", !.runs[i].outcome = "completed",
                       !.runs[i].atTargets = OnTargets(m.pos, run.targets),
                       !.runs[i].calls = << run.keys[1] >>]

\* startShuffling after `await animateToTargets`: lines 491-506 up to the first await.
ShufflerAfterAnimation(m, i, animationCompleted) ==
    LET run == m.runs[i]
    IN  IF animationCompleted /\ run.callback # "none" /\ run.keys # << >>
        THEN [m EXCEPT !.runs[i].phase = "persisting", !.runs[i].outcome = "completed",
                       !.runs[i].atTargets = OnTargets(m.pos, run.targets),
                       !.runs[i].calls = run.keys]
        ELSE [m EXCEPT !.runs[i].phase = "settled",
                       !.runs[i].outcome = IF animationCompleted THEN "completed"
                                           ELSE "interrupted",
                       !.runs[i].atTargets = animationCompleted /\ OnTargets(m.pos, run.targets),
                       !.shuffler.isAnimating = FALSE]

\* The interruption test at the top of the shuffler's animate().
Interrupted(sh) == sh.shouldStop \/ ~sh.isAnimating

\* One call of animate() of run i, with the continuation of the start call
\* that its resolve() releases.
Animate(m, i) ==
    LET run == m.runs[i]
        reached == AllReachedTarget(m.pos, run)
        moved == [m EXCEPT !.pos = MoveAll(m.pos, run)]
    IN  IF run.engine = "shuffle"
        THEN IF Interrupted(m.shuffler)
             THEN ShufflerAfterAnimation(m, i, FALSE)
             ELSE IF reached THEN ShufflerAfterAnimation(moved, i, TRUE) ELSE moved
        ELSE IF reached THEN SorterAfterAnimation(moved, i) ELSE moved

\* The frame callbacks of one animation frame, in the order they were requested.
RECURSIVE RunFrameCallbacks(_, _)
RunFrameCallbacks(m, i) ==
    IF i > Len(m.runs) THEN m
    ELSE IF m.runs[i].phase = "animating"
         THEN RunFrameCallbacks(Animate(m, i), i + 1)
         ELSE RunFrameCallbacks(m, i + 1)

Install(m) ==
    /\ pos' = m.pos
    /\ sorter' = m.sorter
    /\ shuffler' = m.shuffler
    /\ runs' = m.runs

Animating == { i \in DOMAIN runs : runs[i].phase = "animating" }

\* ------------------------------------------------------------------------
\* ParticleSorter.startSorting / stopSorting
\* ------------------------------------------------------------------------
\* Mutant: the isAnimating guard of startSorting is missing.
AlreadySortingNever(so) == so.isAnimating /\ FALSE

\* if (this.isAnimating) { console.log('Sorting already in progress'); return; }
AlreadySorting(so) == so.isAnimating

\* A start call that returned at its guard, kept as a record that ran nothing.
RefusedCall(engine, cb) ==
    [NewRun(engine, << >>, << >>, cb) EXCEPT !.phase = "refused", !.outcome = "refused"]

StartSortingCall(cb) ==
    IF AlreadySorting(sorter)
    THEN /\ runs' = Append(runs, RefusedCall("sort", cb))
         /\ UNCHANGED << nodeEdges, pos, sorter, shuffler >>
    ELSE LET particles == PrepareGraphData(nodeEdges, graphEdges)
             tg == LiveTargets(CalculateGridPositions(nodeKeys, particles, canvas))
             started == Machine(pos, [sorter EXCEPT !.isAnimating = TRUE], shuffler,
                                Append(runs, NewRun("sort", tg, nodeKeys, cb)))
         IN  /\ nodeEdges' = particles
             /\ Install(Animate(started, Len(runs) + 1))

StartSorting ==
    /\ Len(runs) < MaxRuns
    /\ \E cb \in CallbackKinds : StartSortingCall(cb)
    /\ UNCHANGED << nodeKeys, graphEdges, format, canvas, step, clusters, centrality,
                    targets, clickTimers >>
    /\ UNCHANGED storeVars
    /\ UNCHANGED socketVars

\* The runs a stopSorting() call finds animating.
MarkSortStopped(rs) ==
    [ i \in DOMAIN rs |->
        IF rs[i].engine = "sort" /\ rs[i].phase = "animating"
        THEN [rs[i] EXCEPT !.stopped = TRUE]
        ELSE rs[i] ]

StopSorting ==
    /\ sorter' = [sorter EXCEPT !.isAnimating = FALSE]
    /\ runs' = MarkSortStopped(runs)
    /\ UNCHANGED << nodeKeys, nodeEdges, graphEdges, format, canvas, step, clusters,
                    centrality, targets, pos, shuffler, clickTimers >>
    /\ UNCHANGED storeVars
    /\ UNCHANGED socketVars

\* sortParticlesBtn click handler (graph.js:266-319); its callback catches every error.
SortClick ==
    /\ Len(runs) < MaxRuns
    /\ IF sorter.isAnimating \/ nodeKeys = << >>
       THEN UNCHANGED << nodeEdges, pos, sorter, shuffler, runs >>
       ELSE StartSortingCall("resolves")
    /\ UNCHANGED << nodeKeys, graphEdges, format, canvas, step, clusters, centrality,
                    targets, clickTimers >>
    /\ UNCHANGED storeVars
    /\ UNCHANGED socketVars

\* ------------------------------------------------------------------------
\* ParticleShuffler.startShuffling / stopShuffling
\* ------------------------------------------------------------------------
StartShufflingCall(cb, jitter, rnd) ==
    LET cent == CalculateCentrality(nodeKeys, nodeEdges)
        placed == CalculateTargetPositions(nodeKeys, nodeEdges, cent, canvas, jitter)
        tg == LiveTargets(ShuffleTargets(nodeKeys, placed, canvas, rnd))
        started == Machine(pos, sorter, [isAnimating |-> TRUE, shouldStop |-> FALSE],
                           Append(runs, NewRun("shuffle", tg, nodeKeys, cb)))
    IN  Install(Animate(started, Len(runs) + 1))

\* startShuffling called with a Map of the node objects.
StartShuffling ==
    /\ Len(runs) < MaxRuns
    /\ \E jitter \in Jitters(nodeKeys), rnd \in OverlapDeg :
         StartShufflingCall("resolves", jitter, rnd)
    /\ UNCHANGED << nodeKeys, nodeEdges, graphEdges, format, canvas, step, clusters,
                    centrality, targets, clickTimers >>
    /\ UNCHANGED storeVars
    /\ UNCHANGED socketVars

\* The runs a stopShuffling() call finds animating.
MarkStopped(rs) ==
    [ i \in DOMAIN rs |->
        IF rs[i].engine = "shuffle" /\ rs[i].phase = "animating"
        THEN [rs[i] EXCEPT !.stopped = TRUE]
        ELSE rs[i] ]

StopShuffling ==
    /\ shuffler' = [isAnimating |-> FALSE, shouldStop |-> TRUE]
    /\ runs' = MarkStopped(runs)
    /\ UNCHANGED << nodeKeys, nodeEdges, graphEdges, format, canvas, step, clusters,
                    centrality, targets, pos, sorter, clickTimers >>
    /\ UNCHANGED storeVars
    /\ UNCHANGED socketVars

\* startShuffling called by the click handler with the graph object
\* {nodes, edges}: the flags are set, then calculateCentrality's for-of over a
\* plain object throws and the call rejects.
StartShufflingWithGraphObject ==
    /\ shuffler' = [isAnimating |-> TRUE, shouldStop |-> FALSE]
    /\ runs' = Append(runs, [NewRun("shuffle", << >>, << >>, "resolves")
                                EXCEPT !.phase = "threw", !.outcome = "threw"])

\* shuffleParticlesBtn click handler (graph.js:322-378), up to its first await.
ShuffleClick ==
    /\ Len(runs) < MaxRuns
    /\ nodeKeys # << >>
    /\ IF shuffler.isAnimating
       THEN /\ shuffler' = [isAnimating |-> FALSE, shouldStop |-> TRUE]
            /\ runs' = MarkStopped(runs)
            /\ clickTimers' = clickTimers + 1
       ELSE /\ StartShufflingWithGraphObject
            /\ UNCHANGED clickTimers
    /\ UNCHANGED << nodeKeys, nodeEdges, graphEdges, format, canvas, step, clusters,
                    centrality, targets, pos, sorter >>
    /\ UNCHANGED storeVars
    /\ UNCHANGED socketVars

\* The 50 ms timer of a shuffle click fires and the handler goes on to start.
ShuffleClickResume ==
    /\ clickTimers > 0
    /\ Len(runs) < MaxRuns
    /\ clickTimers' = clickTimers - 1
    /\ StartShufflingWithGraphObject
    /\ UNCHANGED << nodeKeys, nodeEdges, graphEdges, format, canvas, step, clusters,
                    centrality, targets, pos, sorter >>
    /\ UNCHANGED storeVars
    /\ UNCHANGED socketVars

\* ------------------------------------------------------------------------
\* Frames and persistence callbacks
\* ------------------------------------------------------------------------
AnimationFrame ==
    /\ Animating # {}
    /\ Install(RunFrameCallbacks(Machine(pos, sorter, shuffler, runs), 1))
    /\ UNCHANGED << nodeKeys, nodeEdges, graphEdges, format, canvas, step, clusters,
                    centrality, targets, clickTimers >>
    /\ UNCHANGED storeVars
    /\ UNCHANGED socketVars

\* The promise of the sorter's awaited callback settles (lines 309-314).
SorterCallbackSettles(i) ==
    LET run == runs[i]
    IN  /\ run.engine = "sort"
        /\ run.phase = "persisting"
        /\ IF run.callback = "rejects"
           THEN /\ runs' = [runs EXCEPT ![i].phase = "rejected"]
                /\ UNCHANGED sorter
           ELSE IF Len(run.calls) < Len(run.keys)
           THEN /\ runs' = [runs EXCEPT ![i].calls = Append(@, run.keys[Len(run.calls) + 1])]
                /\ UNCHANGED sorter
           ELSE /\ runs' = [runs EXCEPT ![i].phase = "settled"]
                /\ sorter' = [sorter EXCEPT !.isAnimating = FALSE]
        /\ UNCHANGED << pos, shuffler >>

\* Promise.all of the shuffler's callbacks settles, or rejects into the catch
\* (lines 499-506).
ShufflerCallbacksSettle(i) ==
    /\ runs[i].engine = "shuffle"
    /\ runs[i].phase = "persisting"
    /\ runs' = [runs EXCEPT ![i].phase = "settled"]
    /\ shuffler' = [shuffler EXCEPT !.isAnimating = FALSE]
    /\ UNCHANGED << pos, sorter >>

CallbackSettles ==
    /\ \E i \in DOMAIN runs : SorterCallbackSettles(i) \/ ShufflerCallbacksSettle(i)
    /\ UNCHANGED << nodeKeys, nodeEdges, graphEdges, format, canvas, step, clusters,
                    centrality, targets, clickTimers >>
    /\ UNCHANGED storeVars
    /\ UNCHANGED socketVars

\* ------------------------------------------------------------------------
\* The page: one graph, both engines, callers and clicks in any order
\* ------------------------------------------------------------------------
StartPositions == { << [x |-> 3300, y |-> 8000], [x |-> 33000, y |-> 11400] >> }

Init ==
    /\ nodeKeys = KeySeq(2)
    /\ nodeEdges = NoEdges(2)
    /\ graphEdges = << [source |-> 1, target |-> 2, directed |-> FALSE] >>
    /\ format = "graph"
    /\ canvas = [width |-> 800, height |-> 600]
    /\ step = "input"
    /\ clusters = Unset
    /\ centrality = Unset
    /\ targets = Unset
    /\ pos \in StartPositions
    /\ sorter = [isAnimating |-> FALSE]
    /\ shuffler = [isAnimating |-> FALSE, shouldStop |-> FALSE]
    /\ runs = << >>
    /\ clickTimers = 0
    /\ StoreInit
    /\ SocketIdle

Next ==
    \/ StartSorting
    \/ StopSorting
    \/ SortClick
    \/ StartShuffling
    \/ StopShuffling
    \/ ShuffleClick
    \/ ShuffleClickResume
    \/ AnimationFrame
    \/ CallbackSettles

Spec == Init /\ [][Next]_vars

\* ------------------------------------------------------------------------
\* Callers that start a run only when no run is stepping, with the browser
\* delivering every requested animation frame
\* ------------------------------------------------------------------------
MaxLiveRuns == 1

SoleStartSorting ==
    /\ Animating = {}
    /\ Len(runs) < MaxLiveRuns
    /\ StartSorting

SoleStartShuffling ==
    /\ Animating = {}
    /\ Len(runs) < MaxLiveRuns
    /\ StartShuffling

LiveNext ==
    \/ SoleStartSorting
    \/ SoleStartShuffling
    \/ StopSorting
    \/ StopShuffling
    \/ AnimationFrame
    \/ CallbackSettles

SpecLive == Init /\ [][LiveNext]_vars /\ WF_vars(AnimationFrame)

\* ========================================================================
\* Properties of the animator and of the run life cycle
\* ========================================================================
Resolved(i) == i \in DOMAIN runs /\ runs[i].phase # "animating"

\* C7: with a single writer of the positions, every run that is animating
\* stops stepping after finitely many frames: it resolves with every node
\* within the snap distance of its target, or (shuffle only) as interrupted.
C7_AnimationTerminates ==
    \A i \in 1..MaxLiveRuns :
        (i \in DOMAIN runs /\ runs[i].phase = "animating")
            ~> (Resolved(i) /\ runs[i].outcome \in {"completed", "interrupted"})

\* C7 witness: a run that needed several frames has resolved as completed
\* with the nodes on its targets.
C7_Witness ==
    \E i \in DOMAIN runs :
        /\ runs[i].outcome = "completed"
        /\ \A k \in DOMAIN pos : pos[k] = runs[i].targets[k]
        /\ pos \notin StartPositions

\* C8: a shuffle run that was animating when stopShuffling() was called
\* resolves as interrupted and never has a persistence callback invoked.
C8_StoppedRunNeverPersists ==
    \A i \in DOMAIN runs :
        (runs[i].engine = "shuffle" /\ runs[i].stopped) =>
            /\ runs[i].calls = << >>
            /\ runs[i].outcome \in {"running", "interrupted"}

\* C9: at most one run is stepping the live node positions at any time.
C9_AtMostOneRunStepping == Cardinality(Animating) <= 1

Settled(run) == run.phase \in {"settled", "rejected"}

EngineIdle(run, so, sh) ==
    IF run.engine = "sort" THEN ~so.isAnimating ELSE ~sh.isAnimating

\* C10: when the start call of a run settles, the run has ended as completed
\* or interrupted and its engine reports idle, also when a persistence
\* callback rejects.
C10_SettledRunLeavesEngineIdle ==
    [][ \A i \in DOMAIN runs :
          (~Settled(runs[i]) /\ Settled(runs'[i]))
              => /\ runs'[i].outcome \in {"completed", "interrupted"}
                 /\ EngineIdle(runs'[i], sorter', shuffler') ]_vars

\* C11: a run that has ended as completed has had the persistence callback
\* invoked exactly once for every node, in node order; an interrupted run has
\* had none; no callback is invoked before the run has converged.
C11_CallbacksForAllNodesOrNone ==
    \A i \in DOMAIN runs :
        /\ (runs[i].calls # << >>) => runs[i].outcome = "completed"
        /\ Settled(runs[i]) =>
               IF runs[i].outcome = "completed"
               THEN runs[i].calls = runs[i].keys
               ELSE runs[i].calls = << >>

\* The smallest and largest ring radius of the ring system node k is laid out
\* in: minRadius + 10 and maxRadius around the canvas centre, minLocalRadius
\* and maxLocalRadius around a cluster centre.
RingBounds(k) ==
    IF UseSingleCluster(clusters)
    THEN [lo |-> minRadius + 10, hi |-> MaxRadiusFor(canvas)]
    ELSE LET c == CHOOSE c \in DOMAIN clusters : Contains(clusters[c], k)
             clusterRadius == CalculateClusterRadius(clusters[c])
         IN  [lo |-> Min2(30, clusterRadius \div 5),
              hi |-> clusterRadius - clusterBoundaryPadding]

\* Every node laid out around the same centre as k has k's degree.
EqualDegrees(k) ==
    \A j \in Nodes : SameRingSystem(j, k) => centrality[j] = centrality[k]

\* C12: when all nodes of the cluster being laid out have the same degree,
\* the ring radius is the midpoint of the minimum and maximum ring radii
\* (normalized centrality 0.5).
C12_EqualDegreesGiveMidpointRing ==
    step = "placed" =>
        \A k \in Nodes :
            EqualDegrees(k) =>
                targets[k].radius =
                    RingRadius(RingBounds(k).lo, RingBounds(k).hi, [num |-> 1, den |-> 2])

\* ------------------------------------------------------------------------
\* The sort engine alone: startSorting, stopSorting, sort clicks, frames
\* ------------------------------------------------------------------------
SortNext ==
    \/ StartSorting
    \/ StopSorting
    \/ SortClick
    \/ AnimationFrame
    \/ CallbackSettles

SpecSort == Init /\ [][SortNext]_vars

Refused(run) == run.phase = "refused"

C14_StoppedSortRunResolvesEarly ==
    \A i \in DOMAIN runs :
        (runs[i].engine = "sort" /\ runs[i].stopped) =>
            /\ runs[i].outcome \in {"running", "interrupted"}
            /\ runs[i].calls = << >>

\* C15: when a run resolves as completed, every node that has a target is
\* exactly on it.
C15_CompletedRunIsOnTargets ==
    \A i \in DOMAIN runs : runs[i].outcome = "completed" => runs[i].atTargets

\* C15 witness: a shuffle run has completed on its targets, away from where
\* the nodes started, and its callbacks are pending.
C15_Witness ==
    \E i \in DOMAIN runs :
        /\ runs[i].engine = "shuffle"
        /\ runs[i].phase = "persisting"
        /\ runs[i].atTargets
        /\ pos = runs[i].targets
        /\ pos \notin StartPositions

C17_GridTargetsInCanvas ==
    step = "gridded" => \A k \in Nodes : InCanvas(targets[k], canvas)

\* C18: in the grid layout, within one cluster a node with more connections
\* is strictly above every node with fewer connections.
C18_MoreConnectionsStrictlyAbove ==
    step = "gridded" =>
        \A a, b \in Nodes :
            (SameCluster(clusters, a, b)
               /\ ConnectionCount(nodeEdges, a) > ConnectionCount(nodeEdges, b))
                => targets[a].y < targets[b].y

\* C19: grid targets of nodes of different clusters are at least
\* clusterSpacing apart in x.
C19_ClustersAtLeastClusterSpacingApart ==
    step = "gridded" =>
        \A a, b \in Nodes :
            ~SameCluster(clusters, a, b)
                => Abs(targets[a].x - targets[b].x) >= clusterSpacing

\* C19 witness: a cluster with a row of two nodes lies to the left of
\* another cluster.
C19_Witness ==
    /\ step = "gridded"
    /\ \E a, b, c \in Nodes :
         /\ a # b
         /\ SameCluster(clusters, a, b)
         /\ targets[a].y = topMargin
         /\ targets[b].x = targets[a].x + nodeSpacing
         /\ ~SameCluster(clusters, b, c)
         /\ targets[c].x > targets[b].x

\* C20: no two distinct nodes receive the same grid target.
C20_GridTargetsDistinct ==
    step = "gridded" =>
        \A a, b \in Nodes : a # b => targets[a] # targets[b]

\* ========================================================================
\* Dangling edges
\* ========================================================================
\* graph.edges without the edges that have an endpoint with no node entry.
WithoutDanglingEdges(edges) ==
    SelectSeq(edges, LAMBDA e : e.source \in Nodes /\ e.target \in Nodes)

\* The edges arrays without the keys that name no node.
WithoutDanglingLinks(adj) ==
    [ k \in DOMAIN adj |-> SelectSeq(adj[k], LAMBDA j : j \in DOMAIN adj) ]

NextPass ==
    /\ step = "gridded"
    /\ step' = "input"
    /\ clusters' = Unset
    /\ targets' = Unset
    /\ UNCHANGED << nodeKeys, nodeEdges, graphEdges, format, canvas, centrality >>
    /\ UNCHANGED runVars
    /\ UNCHANGED storeVars
    /\ UNCHANGED socketVars

\* delete this.graphData.edges[edgeId] before the next pass.
EdgeRemoved ==
    /\ step = "gridded"
    /\ \E i \in DOMAIN graphEdges :
         graphEdges' = SubSeq(graphEdges, 1, i - 1) \o SubSeq(graphEdges, i + 1, Len(graphEdges))
    /\ step' = "input"
    /\ clusters' = Unset
    /\ targets' = Unset
    /\ UNCHANGED << nodeKeys, nodeEdges, format, canvas, centrality >>
    /\ UNCHANGED runVars
    /\ UNCHANGED storeVars
    /\ UNCHANGED socketVars

\* delete particles.nodes[key] before the next pass: the node object goes,
\* the edge list and the other node objects stay as they are.
NodeDeleted ==
    /\ step = "gridded"
    /\ format = "graph"
    /\ Len(nodeKeys) > 1
    /\ \E key \in Nodes :
         /\ nodeKeys' = SelectSeq(nodeKeys, LAMBDA k : k # key)
         /\ nodeEdges' = [ k \in DOMAIN nodeEdges \ {key} |-> nodeEdges[k] ]
    /\ step' = "input"
    /\ clusters' = Unset
    /\ targets' = Unset
    /\ UNCHANGED << graphEdges, format, canvas, centrality >>
    /\ UNCHANGED runVars
    /\ UNCHANGED storeVars
    /\ UNCHANGED socketVars

PassNext ==
    \/ SortPrepare
    \/ SortDetect
    \/ SortGrid
    \/ NextPass
    \/ EdgeRemoved
    \/ NodeDeleted

SpecPasses == LayoutInit /\ [][PassNext]_vars

\* The node objects of a fresh graph with the same nodes and edges.
FreshParticles ==
    PrepareGraphData([ k \in Nodes |-> << >> ], graphEdges)

\* C22: the degrees, clusters and targets computed by a sort pass on a graph
\* object equal those computed on a fresh graph with the same nodes and
\* edges, whatever passes and removals came before.
C22_PassDependsOnSnapshotOnly ==
    format = "graph" =>
        /\ step = "prepared" =>
               \A k \in Nodes :
                   ConnectionCount(nodeEdges, k) = ConnectionCount(FreshParticles, k)
        /\ step = "clustered" => clusters = DetectClusters(nodeKeys, FreshParticles)
        /\ step = "gridded" =>
               targets = CalculateGridPositions(nodeKeys, FreshParticles, canvas)

\* ========================================================================
\* GraphService and WebSocketService (server), and the page that listens
\* ========================================================================
MaxStoreKeys == 2
MaxCalls == 3
MaxPageRuns == 1

StoreKeys == 1..MaxStoreKeys

\* A request field that is missing or empty.
Missing == 0

\* Two node payloads: as first stored, and with the position a layout gave it.
NodeValues == {"first", "moved"}

Restrict(f, S) == [ k \in S |-> f[k] ]

\* Mutant: only the edges that start at the node are collected.
IncidentEdgesSourceOnly(edges, key) ==
    { id \in DOMAIN edges : edges[id].source = key }

\* edgesToRemove of removeNode
IncidentEdges(edges, key) ==
    { id \in DOMAIN edges : edges[id].source = key \/ edges[id].target = key }

\* The graphs posted to /data or /graph: a consistent one and one whose edge
\* points at a node it does not hold.
GraphInputs ==
    { [nodes |-> [ k \in StoreKeys |-> "first" ],
       edges |-> (0 :> [source |-> 1, target |-> MaxStoreKeys])],
      [nodes |-> [ k \in StoreKeys \ {MaxStoreKeys} |-> "first" ],
       edges |-> (0 :> [source |-> 1, target |-> MaxStoreKeys])] }

Message(type, operation, data, nodeKey) ==
    [type |-> type, operation |-> operation, data |-> data, nodeKey |-> nodeKey]

\* WebSocketService.broadcast: send to the open sockets, drop the others.
Broadcast(socks, message) ==
    [ s \in DOMAIN socks |->
        IF socks[s].state = "open"
        THEN [socks[s] EXCEPT !.inbox = Append(@, message)]
        ELSE NoSocket ]

NotifyDataChange(socks, operation, data, nodeKey) ==
    Broadcast(socks, Message("data_changed", operation, data, nodeKey))

Reply(op, key, success, message) ==
    [op |-> op, key |-> key, success |-> success, message |-> message]

\* GraphService.addNode
AddNodeCall(key, node) ==
    LET isUpdate == key \in DOMAIN store.nodes
        data == [store EXCEPT !.nodes = (key :> node) @@ @]
    IN  /\ store' = data
        /\ sockets' = NotifyDataChange(sockets, IF isUpdate THEN "update" ELSE "add", data, key)
        /\ reply' = Reply("addNode", key, TRUE, "")

\* POST /particle/:key sent by a user of the API.
AddNode ==
    /\ calls < MaxCalls
    /\ calls' = calls + 1
    /\ \E key \in StoreKeys, node \in NodeValues :
         /\ AddNodeCall(key, node)
         /\ persist' = [persist EXCEPT !.removed = @ \ {key}]
    /\ UNCHANGED pageParticles
    /\ UNCHANGED << layoutVars, runVars, socketVars >>

\* GraphService.removeNode
RemoveNodeCall(key) ==
    IF key \notin DOMAIN store.nodes
    THEN /\ reply' = Reply("removeNode", key, FALSE, "Node not found")
         /\ UNCHANGED << store, sockets >>
    ELSE LET data == [nodes |-> Restrict(store.nodes, DOMAIN store.nodes \ {key}),
                      edges |-> Restrict(store.edges,
                                         DOMAIN store.edges \ IncidentEdges(store.edges, key))]
         IN  /\ store' = data
             /\ sockets' = NotifyDataChange(sockets, "delete", data, key)
             /\ reply' = Reply("removeNode", key, TRUE, "")

\* DELETE /particle/:key
RemoveNode ==
    /\ calls < MaxCalls
    /\ calls' = calls + 1
    /\ \E key \in StoreKeys :
         /\ RemoveNodeCall(key)
         /\ persist' = IF key \in DOMAIN store.nodes /\ key \in persist.pending
                       THEN [persist EXCEPT !.removed = @ \cup {key}]
                       ELSE persist
    /\ UNCHANGED pageParticles
    /\ UNCHANGED << layoutVars, runVars, socketVars >>

\* POST /edge: the handler's check of the two fields, then GraphService.addEdge
\* with a fresh id.
AddEdge ==
    /\ calls < MaxCalls
    /\ calls' = calls + 1
    /\ \E source \in StoreKeys \cup {Missing}, target \in StoreKeys \cup {Missing} :
         IF source = Missing \/ target = Missing
         THEN /\ reply' = Reply("addEdge", Missing, FALSE, "Source and target are required")
              /\ UNCHANGED store
         ELSE /\ store' = [store EXCEPT !.edges =
                              (calls' :> [source |-> source, target |-> target]) @@ @]
              /\ reply' = Reply("addEdge", calls', TRUE, "")
    /\ UNCHANGED << sockets, pageParticles, persist >>
    /\ UNCHANGED << layoutVars, runVars, socketVars >>

\* DELETE /edge/:edgeId
RemoveEdge ==
    /\ calls < MaxCalls
    /\ calls' = calls + 1
    /\ \E edgeId \in 0..MaxCalls :
         IF edgeId \in DOMAIN store.edges
         THEN /\ store' = [store EXCEPT !.edges = Restrict(@, DOMAIN @ \ {edgeId})]
              /\ reply' = Reply("removeEdge", edgeId, TRUE, "")
         ELSE /\ reply' = Reply("removeEdge", edgeId, FALSE, "Edge not found")
              /\ UNCHANGED store
    /\ UNCHANGED << sockets, pageParticles, persist >>
    /\ UNCHANGED << layoutVars, runVars, socketVars >>

\* POST /data and POST /graph
UpdateGraph ==
    /\ calls < MaxCalls
    /\ calls' = calls + 1
    /\ \E data \in GraphInputs :
         /\ store' = data
         /\ sockets' = NotifyDataChange(sockets, "bulk_update", data, Missing)
         /\ persist' = [persist EXCEPT !.removed = @ \ DOMAIN data.nodes]
    /\ reply' = Reply("updateGraph", Missing, TRUE, "")
    /\ UNCHANGED pageParticles
    /\ UNCHANGED << layoutVars, runVars, socketVars >>

\* DELETE /data
ClearAll ==
    /\ calls < MaxCalls
    /\ calls' = calls + 1
    /\ store' = EmptyGraph
    /\ sockets' = NotifyDataChange(sockets, "clear", EmptyGraph, Missing)
    /\ reply' = Reply("clearAll", Missing, TRUE, "")
    /\ UNCHANGED << pageParticles, persist >>
    /\ UNCHANGED << layoutVars, runVars, socketVars >>

\* wss.on('connection'): the socket joins the set and is greeted.
ClientConnects ==
    /\ \E s \in SocketIds :
         /\ sockets[s].state = "absent"
         /\ sockets' = [sockets EXCEPT ![s] =
               [state |-> "open",
                inbox |-> << Message("connection_established", "none", EmptyGraph, Missing) >>]]
    /\ UNCHANGED << store, reply, calls, pageParticles, persist >>
    /\ UNCHANGED << layoutVars, runVars, socketVars >>

\* The connection goes down: readyState leaves OPEN, what was not delivered
\* is lost, the 'close' event is still to come.
SocketCloses ==
    /\ \E s \in SocketIds :
         /\ sockets[s].state = "open"
         /\ sockets' = [sockets EXCEPT ![s] = [state |-> "closed", inbox |-> << >>]]
    /\ UNCHANGED << store, reply, calls, pageParticles, persist >>
    /\ UNCHANGED << layoutVars, runVars, socketVars >>

\* ws.on('close'): this.clients.delete(ws)
CloseEvent ==
    /\ \E s \in SocketIds :
         /\ sockets[s].state = "closed"
         /\ sockets' = [sockets EXCEPT ![s] = NoSocket]
    /\ UNCHANGED << store, reply, calls, pageParticles, persist >>
    /\ UNCHANGED << layoutVars, runVars, socketVars >>

\* The socket of the page.
PageSocket == 1

\* ws.onmessage / handleWebSocketMessage
ClientReceives ==
    /\ \E s \in SocketIds :
         /\ sockets[s].state = "open"
         /\ sockets[s].inbox # << >>
         /\ sockets' = [sockets EXCEPT ![s].inbox = Tail(@)]
         /\ pageParticles' =
              IF s = PageSocket /\ Head(sockets[s].inbox).type = "data_changed"
              THEN Head(sockets[s].inbox).data
              ELSE pageParticles
    /\ UNCHANGED << store, reply, calls, persist >>
    /\ UNCHANGED << layoutVars, runVars, socketVars >>

\* The page fetches /data (on load and after an edit).
LoadData ==
    /\ pageParticles # store
    /\ pageParticles' = store
    /\ UNCHANGED << store, reply, calls, sockets, persist >>
    /\ UNCHANGED << layoutVars, runVars, socketVars >>

\* A layout run of the page over its snapshot of particles.nodes has
\* converged and issues updateParticleOnServer(key, particle) for every key.
LayoutRunPersists ==
    /\ persist.started < MaxPageRuns
    /\ DOMAIN pageParticles.nodes # {}
    /\ persist' = [started |-> persist.started + 1,
                   pending |-> DOMAIN pageParticles.nodes,
                   removed |-> {}]
    /\ UNCHANGED << store, reply, calls, sockets, pageParticles >>
    /\ UNCHANGED << layoutVars, runVars, socketVars >>

\* The server handles one of the run's POST /particle/:key requests.
PersistPostHandled ==
    /\ \E key \in persist.pending :
         /\ AddNodeCall(key, "moved")
         /\ persist' = [persist EXCEPT !.pending = @ \ {key}]
    /\ UNCHANGED << calls, pageParticles >>
    /\ UNCHANGED << layoutVars, runVars, socketVars >>

StoreNext ==
    \/ AddNode
    \/ RemoveNode
    \/ AddEdge
    \/ RemoveEdge
    \/ UpdateGraph
    \/ ClearAll
    \/ ClientConnects
    \/ SocketCloses
    \/ CloseEvent
    \/ ClientReceives
    \/ LoadData
    \/ LayoutRunPersists
    \/ PersistPostHandled

SpecStore == Init /\ [][StoreNext]_vars

\* ------------------------------------------------------------------------
\* The graph service alone, called through its six operations
\* ------------------------------------------------------------------------
ServiceNext ==
    \/ AddNode
    \/ RemoveNode
    \/ AddEdge
    \/ RemoveEdge
    \/ UpdateGraph
    \/ ClearAll

SpecService == Init /\ [][ServiceNext]_vars

C24_ReferentialIntegrity ==
    \A id \in DOMAIN store.edges :
        /\ store.edges[id].source \in DOMAIN store.nodes
        /\ store.edges[id].target \in DOMAIN store.nodes

LastMessage(sock) == sock.inbox[Len(sock.inbox)]

\* C25: every change to the stored graph is followed by one data_changed
\* broadcast carrying the updated graph to every connected client whose
\* socket is open; for a node write the operation is 'update' if the key
\* already existed and 'add' otherwise.
C25_EveryChangeIsBroadcast ==
    [][ store' # store =>
          \A s \in SocketIds :
              sockets[s].state = "open" =>
                  /\ sockets'[s].state = "open"
                  /\ Len(sockets'[s].inbox) = Len(sockets[s].inbox) + 1
                  /\ LastMessage(sockets'[s]).type = "data_changed"
                  /\ LastMessage(sockets'[s]).data = store'
                  /\ reply'.op = "addNode" =>
                         LastMessage(sockets'[s]).operation =
                             IF reply'.key \in DOMAIN store.nodes THEN "update" ELSE "add" ]_vars

\* ========================================================================
\* The page's WebSocket connection (graph.js connectWebSocket)
\* ========================================================================
MaxSocketEvents == 8

maxReconnectAttempts == 5
reconnectDelay == 1000

RECURSIVE Pow2(_)
Pow2(n) == IF n <= 0 THEN 1 ELSE 2 * Pow2(n - 1)

\* Mutant: the delay grows linearly with the attempt number.
BackoffDelayLinear(attempts) == reconnectDelay * attempts

\* reconnectDelay * Math.pow(2, wsReconnectAttempts - 1)
BackoffDelay(attempts) == reconnectDelay * Pow2(attempts - 1)

\* A successful open, as an entry of attemptLog.
Opened == 0

\* connectWebSocket() at the end of the script, on page load.
PageLoadConnects ==
    /\ ws = "null"
    /\ reconnectTimer = 0
    /\ attemptLog = << >>
    /\ ws' = "connecting"
    /\ UNCHANGED << wsReconnectAttempts, reconnectTimer, attemptLog >>
    /\ UNCHANGED << layoutVars, runVars, storeVars >>

\* setTimeout(connectWebSocket, delay) fires.
ReconnectTimerFires ==
    /\ reconnectTimer > 0
    /\ ws' = "connecting"
    /\ reconnectTimer' = 0
    /\ UNCHANGED << wsReconnectAttempts, attemptLog >>
    /\ UNCHANGED << layoutVars, runVars, storeVars >>

\* ws.onopen
OnOpen ==
    /\ ws = "connecting"
    /\ Len(attemptLog) < MaxSocketEvents
    /\ ws' = "open"
    /\ wsReconnectAttempts' = 0
    /\ attemptLog' = Append(attemptLog, Opened)
    /\ UNCHANGED reconnectTimer
    /\ UNCHANGED << layoutVars, runVars, storeVars >>

\* ws.onclose, of an open connection or of a connection attempt that failed.
OnClose ==
    /\ ws \in {"connecting", "open"}
    /\ ws' = "null"
    /\ IF wsReconnectAttempts < maxReconnectAttempts
       THEN /\ Len(attemptLog) < MaxSocketEvents
            /\ wsReconnectAttempts' = wsReconnectAttempts + 1
            /\ reconnectTimer' = BackoffDelay(wsReconnectAttempts')
            /\ attemptLog' = Append(attemptLog, reconnectTimer')
       ELSE UNCHANGED << wsReconnectAttempts, reconnectTimer, attemptLog >>
    /\ UNCHANGED << layoutVars, runVars, storeVars >>

SocketNext ==
    \/ PageLoadConnects
    \/ ReconnectTimerFires
    \/ OnOpen
    \/ OnClose

SpecSocket == Init /\ [][SocketNext]_vars

\* The number of reconnections scheduled in a row, without an open between
\* them, up to entry i of the log.
RECURSIVE ConsecutiveAttempts(_, _)
ConsecutiveAttempts(log, i) ==
    IF i = 0 THEN 0
    ELSE IF log[i] = Opened THEN 0
    ELSE 1 + ConsecutiveAttempts(log, i - 1)

\* The client has given up: no connection, no timer, and it did try.
StoppedRetrying == ws = "null" /\ reconnectTimer = 0 /\ attemptLog # << >>

\* C26: after a close the k-th consecutive reconnection attempt is scheduled
\* after 1000 * 2^(k-1) ms; at most 5 consecutive attempts are made without a
\* successful open, after which the client stops retrying; the attempt
\* counter is 0 after every successful open.
C26_BoundedExponentialBackoff ==
    /\ \A i \in DOMAIN attemptLog :
           attemptLog[i] # Opened =>
               /\ ConsecutiveAttempts(attemptLog, i) <= 5
               /\ attemptLog[i] = 1000 * Pow2(ConsecutiveAttempts(attemptLog, i) - 1)
    /\ wsReconnectAttempts = ConsecutiveAttempts(attemptLog, Len(attemptLog))
    /\ ws = "open" => wsReconnectAttempts = 0
    /\ StoppedRetrying => ConsecutiveAttempts(attemptLog, Len(attemptLog)) = 5
    /\ ws = "null" /\ attemptLog # << >> /\ ~StoppedRetrying =>
           reconnectTimer = attemptLog[Len(attemptLog)]

\* C26 witness: after a successful open the connection was lost, five
\* reconnection attempts failed one after the other, and the client gave up.
C26_Witness ==
    /\ StoppedRetrying
    /\ Len(attemptLog) >= 6
    /\ attemptLog[Len(attemptLog) - 5] = Opened
    /\ SubSeq(attemptLog, Len(attemptLog) - 4, Len(attemptLog))
         = << 1000, 2000, 4000, 8000, 16000 >>

\* ========================================================================
\* Choice of the shuffle layout (checked under SpecLayout)
\* ========================================================================
LargeClusters == { c \in DOMAIN clusters : Len(clusters[c]) > 1 }

\* The targets are those of the single-cluster layout around the canvas midpoint.
PlacedAroundMidpoint ==
    \E jitter \in Jitters(nodeKeys) :
        targets = CalculateSingleClusterTargets(nodeKeys, centrality, canvas, jitter)

\* Every cluster is laid out around its own centre, and every target carries
\* the index of its node's cluster.
PlacedAroundOwnCenters ==
    \E jitter \in Jitters(nodeKeys) :
        \A c \in DOMAIN clusters :
            LET local == CalculateClusterLocalTargets(
                             clusters[c], centrality,
                             CalculateClusterCenters(clusters, canvas)[c],
                             CalculateClusterRadius(clusters[c]), jitter)
            IN  \A k \in Range(clusters[c]) :
                    /\ targets[k].clusterId = c - 1
                    /\ targets[k].x = local[k].x
                    /\ targets[k].y = local[k].y
                    /\ targets[k].radius = local[k].radius

C28_TwoClusterCentersLeftAndRight ==
    (step = "placed" /\ Len(clusters) = 2) =>
        LET centers == CalculateClusterCenters(clusters, canvas)
        IN  /\ Len(centers) = 2
            /\ centers[1] # centers[2]
            /\ centers[1].y = canvas.height \div 2
            /\ centers[2].y = canvas.height \div 2
            /\ centers[1].x < centers[2].x
            /\ \A c \in 1..2 :
                   /\ 2 * minRadius + 50 <= centers[c].x
                   /\ centers[c].x <= canvas.width - (2 * minRadius + 50)

\* ========================================================================
\* Overlapping shuffle runs (checked under Spec)
\* ========================================================================
\* C29: a shuffle run resolves as interrupted only if stopShuffling() was
\* called while it was animating; the completion or the persistence phase of
\* an earlier run never ends a later run as interrupted.
C29_InterruptedOnlyByStop ==
    \A i \in DOMAIN runs :
        (runs[i].engine = "shuffle" /\ runs[i].outcome = "interrupted")
            => runs[i].stopped

\* ========================================================================
\* Persistence of a layout run against the store (checked under SpecStore)
\* ========================================================================
\* C30: persisting the final positions of a layout run never adds a node to
\* the store: a node removed from the store (removeNode) after the run took
\* its snapshot and before its callbacks were handled, and not added again by
\* anyone else, is absent from the store once all of the run's callbacks have
\* been handled.
C30_PersistenceNeverAddsNode ==
    (persist.started > 0 /\ persist.pending = {}) =>
        \A key \in persist.removed : key \notin DOMAIN store.nodes

====
